---- MODULE Spec2Model ----
(***************************************************************************)
(* The console Hangman game (task-2, hangman.py), modelled at the end of   *)
(* the operations, and the                                                 *)
(* cricket fielding analysis (task-3): the aggregation of ball-by-ball     *)
(* fielding events into per-player action counts and the Performance       *)
(* Score, as analysis.py (compute_action_counts, compute_ps) and           *)
(* fielding_analysis.py (compute_matrix) compute them.                     *)
(*                                                                         *)
(* Representation.                                                         *)
(*   - A Python str is a sequence of one-character strings; NaN is the     *)
(*     cell pandas holds for a missing value.                              *)
(*   - A Runs cell is <<n>> for the number n and <<>> for a missing value. *)
(*     A Runs cell that holds text is <<"str", s>> for the str s.          *)
(*   - A function that raises is a result with raised set to the type of   *)
(*     the exception and nothing returned.                                 *)
(*   - A DataFrame indexed by player is [index |-> the sorted sequence of  *)
(*     group keys, rows |-> key -> record of columns].                     *)
(*   - Weights and PS are multiples of 0.5 in every configuration used, so *)
(*     they are held exactly as integers counting halves: a weight field   *)
(*     of 5 is the float 2.5, and a PS cell of 7 is the float 3.5.         *)
(***************************************************************************)
EXTENDS Integers, Sequences, FiniteSets, TLC

\* Largest number of rows of the input dataset.
MaxEvents == 2

\* The longest dataset that is split into shards.
MaxShardEvents == 3

-----------------------------------------------------------------------------
(* Python str operations used by the normalisation *)

NaN == <<"NaN">>

UpperCase == <<"A","B","C","D","E","F","G","H","I","J","K","L","M",
               "N","O","P","Q","R","S","T","U","V","W","X","Y","Z">>
LowerCase == <<"a","b","c","d","e","f","g","h","i","j","k","l","m",
               "n","o","p","q","r","s","t","u","v","w","x","y","z">>

Whitespace == {" ", "\t", "\n"}

\* Series.fillna(""): a missing cell becomes the empty string.
fillna(s) == IF s = NaN THEN <<>> ELSE s

\* The lower-case letter of each upper-case letter.
LowerOf ==
    [c \in {UpperCase[i] : i \in DOMAIN UpperCase} |->
        LowerCase[CHOOSE i \in DOMAIN UpperCase : UpperCase[i] = c]]

lower_char(c) == IF c \in DOMAIN LowerOf THEN LowerOf[c] ELSE c

\* Series.str.lower()
str_lower(s) == [i \in 1..Len(s) |-> lower_char(s[i])]

RECURSIVE lstrip(_)
lstrip(s) == IF s # <<>> /\ Head(s) \in Whitespace THEN lstrip(Tail(s)) ELSE s

RECURSIVE rstrip(_)
rstrip(s) ==
    IF s # <<>> /\ s[Len(s)] \in Whitespace
    THEN rstrip(SubSeq(s, 1, Len(s) - 1))
    ELSE s

\* Series.str.strip(): leading and trailing whitespace removed.
str_strip(s) == rstrip(lstrip(s))

\* Series.str.contains(pat) for a pattern without regex metacharacters.
str_contains(s, pat) ==
    \E i \in 0..(Len(s) - Len(pat)) : SubSeq(s, i + 1, i + Len(pat)) = pat

\* Code points of the characters that occur in player names.
CodePoint(c) ==
    CASE c = " " -> 32
      [] c = "A" -> 65
      [] c = "B" -> 66
      [] c = "a" -> 97
      [] c = "b" -> 98

\* Python's str ordering (lexicographic by code point): s < t.
RECURSIVE str_lt(_, _)
str_lt(s, t) ==
    IF t = <<>> THEN FALSE
    ELSE IF s = <<>> THEN TRUE
    ELSE IF Head(s) = Head(t) THEN str_lt(Tail(s), Tail(t))
    ELSE CodePoint(Head(s)) < CodePoint(Head(t))

-----------------------------------------------------------------------------
(* The classification literals of the aggregators *)

CleanPick    == <<"c","l","e","a","n"," ","p","i","c","k">>
GoodThrow    == <<"g","o","o","d"," ","t","h","r","o","w">>
Catch        == <<"c","a","t","c","h">>
DropCatch    == <<"d","r","o","p"," ","c","a","t","c","h">>
Stumping     == <<"s","t","u","m","p","i","n","g">>
RunOut       == <<"r","u","n"," ","o","u","t">>
MissedRunOut == <<"m","i","s","s","e","d"," ","r","u","n"," ","o","u","t">>
DirectHit    == <<"d","i","r","e","c","t"," ","h","i","t">>

-----------------------------------------------------------------------------
(* Weights: the two dataclasses' defaults and one more configuration, in   *)
(* halves.                                                                 *)

\* analysis.Weights(): 0.5, 1.0, 3.0, -2.0, 2.5, 2.5, -1.0, 1.5
AnalysisWeights ==
    [WCP |-> 1, WGT |-> 2, WC |-> 6, WDC |-> -4,
     WST |-> 5, WRO |-> 5, WMRO |-> -2, WDH |-> 3]

\* fielding_analysis.Weights(): 1.0, 1.0, 3.0, -3.0, 3.0, 3.0, -2.0, 2.0
FieldingWeights ==
    [WCP |-> 2, WGT |-> 2, WC |-> 6, WDC |-> -6,
     WST |-> 6, WRO |-> 6, WMRO |-> -4, WDH |-> 4]

\* Weights(1.5, 2.0, 3.5, -4.5, 5.5, 6.5, -7.5, 8.5): all fields distinct.
CustomWeights ==
    [WCP |-> 3, WGT |-> 4, WC |-> 7, WDC |-> -9,
     WST |-> 11, WRO |-> 13, WMRO |-> -15, WDH |-> 17]

WeightConfigs == {AnalysisWeights, FieldingWeights, CustomWeights}

-----------------------------------------------------------------------------
(* The rows the dataset may hold *)

\* Pick, Throw, Short Description and Runs of a row: rows of
\* generate_sample_dataset, some with re-cased and padded outcomes, with
\* missing cells, with unrecognized outcomes and with direct hits.
RowKinds ==
    << [Pick |-> CleanPick, Throw |-> <<>>,
        Desc |-> <<"c","l","e","a","n"," ","t","a","k","e">>, Runs |-> <<1>>],
       [Pick |-> GoodThrow, Throw |-> MissedRunOut,
        Desc |-> <<"d","i","r","e","c","t"," ","h","i","t"," ","a","t","t","e","m","p","t">>,
        Runs |-> <<-1>>],
       [Pick |-> <<" ","C","l","e","a","n"," ","P","i","c","k"," ">>, Throw |-> Stumping,
        Desc |-> <<"q","u","i","c","k"," ","s","t","u","m","p","i","n","g">>, Runs |-> <<0>>],
       [Pick |-> GoodThrow, Throw |-> <<"R","u","n"," ","O","u","t","\t">>,
        Desc |-> <<"b","u","l","l","e","t",","," ","D","i","r","e","c","t"," ","H","i","t","!">>,
        Runs |-> <<2>>],
       [Pick |-> DropCatch, Throw |-> NaN,
        Desc |-> <<"D","I","R","E","C","T"," ","H","I","T">>, Runs |-> <<-2>>],
       [Pick |-> Catch, Throw |-> <<>>, Desc |-> NaN, Runs |-> <<>>],
       [Pick |-> <<"f","u","m","b","l","e">>, Throw |-> <<>>,
        Desc |-> <<"m","i","s","f","i","e","l","d">>, Runs |-> <<-1>>],
       [Pick |-> NaN, Throw |-> RunOut,
        Desc |-> <<"d","i","r","e","c","t","h","i","t">>, Runs |-> <<1>>],
       [Pick |-> <<" "," ">>, Throw |-> <<"o","v","e","r","t","h","r","o","w">>,
        Desc |-> <<>>, Runs |-> <<0>> ] >>

Row(name, k) ==
    [PlayerName |-> name, ShortDescription |-> k.Desc,
     Pick |-> k.Pick, Throw |-> k.Throw, Runs |-> k.Runs]

\* The rows a dataset is made of: every kind of row for the player "A",
\* three kinds each for " A" (leading blank) and "a" (other letter case).
Rows ==
       {Row(<<"A">>, RowKinds[n]) : n \in DOMAIN RowKinds}
  \cup {Row(<<" ","A">>, RowKinds[n]) : n \in {1, 5, 9}}
  \cup {Row(<<"a">>, RowKinds[n]) : n \in {3, 6, 7}}

\* A Runs cell that holds a str: what the cell of a file is once the Runs
\* column has text in it and is read with dtype object.
StrCell(s) == <<"str", s>>

\* Rows whose Runs cell is a str: "n/a", which is no number, and "2".
TextKinds ==
    << [Pick |-> Catch, Throw |-> <<>>, Desc |-> <<>>,
        Runs |-> StrCell(<<"n","/","a">>)],
       [Pick |-> CleanPick, Throw |-> RunOut,
        Desc |-> <<"d","i","r","e","c","t"," ","h","i","t">>,
        Runs |-> StrCell(<<"2">>)] >>

\* The rows of the datasets with text for runs: three with a str in Runs,
\* and rows with a number or nothing in it.
TextRows ==
       {Row(<<"A">>, TextKinds[n]) : n \in DOMAIN TextKinds}
  \cup {Row(<<"a">>, TextKinds[1])}
  \cup {Row(<<"A">>, RowKinds[n]) : n \in {2, 6}}
  \cup {Row(<<"a">>, RowKinds[3])}

\* The rows of the datasets that are permuted and split into shards: two
\* players, one of them with four kinds of event.
ShardRows ==
       {Row(<<"A">>, RowKinds[n]) : n \in {1, 2, 4, 6}}
  \cup {Row(<<" ","A">>, RowKinds[n]) : n \in {1, 5}}

-----------------------------------------------------------------------------
(* pandas operations *)

None == [None |-> TRUE]

\* Plain assignment (working = frame) in place of copy(): the same object.
DataFrame_alias(frame) == [cells |-> frame, shared |-> TRUE]

\* DataFrame.copy(): a new object holding the same cells. An object is
\* [cells |-> its cells, shared |-> whether it is the caller's own object].
DataFrame_copy(frame) == [cells |-> frame, shared |-> FALSE]

\* The cells of the caller's object once the callee has assigned columns on
\* its working object: its own cells, unless the two are one object.
CallerCells(frame, obj, assigned) == IF obj.shared THEN assigned ELSE frame

\* The normalisation without str.strip().
normalize_nostrip(s) == str_lower(fillna(s))

\* working[col].fillna("").str.strip().str.lower()
normalize(s) == str_lower(str_strip(fillna(s)))

\* The group keys of groupby (sort=True): the distinct values, ascending.
RECURSIVE SortKeys(_)
SortKeys(S) ==
    IF S = {} THEN <<>>
    ELSE LET m == CHOOSE x \in S : \A y \in S \ {x} : str_lt(x, y)
         IN  <<m>> \o SortKeys(S \ {m})

RECURSIVE SumSeq(_)
SumSeq(s) == IF s = <<>> THEN 0 ELSE Head(s) + SumSeq(Tail(s))

\* A boolean cell summed as a number.
AsInt(b) == IF b THEN 1 ELSE 0

\* Runs clipped at zero: conceded runs dropped.
RunsValueClipped(r) == IF r = <<>> \/ r[1] < 0 THEN 0 ELSE r[1]

\* A Runs cell as sum() takes it: a missing value is skipped.
RunsValue(r) == IF r = <<>> THEN 0 ELSE r[1]

\* values.groupby(by).count() in place of sum(): the rows of each group.
groupby_count(values, by) ==
    LET keys == {by[i] : i \in DOMAIN by}
    IN  [index |-> SortKeys(keys),
         values |-> [k \in keys |-> Cardinality({i \in DOMAIN values : by[i] = k})]]

\* values.groupby(by).last() in place of sum(): the value of the last row of
\* each group.
groupby_last(values, by) ==
    LET keys == {by[i] : i \in DOMAIN by}
    IN  [index |-> SortKeys(keys),
         values |-> [k \in keys |->
             values[CHOOSE i \in DOMAIN by :
                        by[i] = k /\ \A j \in DOMAIN by : by[j] = k => j <= i]]]

\* The rows filtered by the mask before grouping: a group none of whose
\* values is non-zero has no key.
groupby_sum_filtered(values, by) ==
    LET keys == {by[i] : i \in {j \in DOMAIN by : values[j] # 0}}
    IN  [index |-> SortKeys(keys),
         values |-> [k \in keys |->
             SumSeq([i \in DOMAIN values |-> IF by[i] = k THEN values[i] ELSE 0])]]

\* values.groupby(by).sum(): a Series indexed by the sorted group keys.
groupby_sum(values, by) ==
    LET keys == {by[i] : i \in DOMAIN by}
    IN  [index |-> SortKeys(keys),
         values |-> [k \in keys |->
             SumSeq([i \in DOMAIN values |-> IF by[i] = k THEN values[i] ELSE 0])]]

\* Series.fillna(0) after pd.concat(axis=1): a key the Series lacks reads 0.
CellOrZero(series, k) ==
    IF k \in DOMAIN series.values THEN series.values[k] ELSE 0

Column(frame, col) == [i \in DOMAIN frame |-> frame[i][col]]

\* column.str.contains(literal) in place of ==.
contains_mask(col, lit) == [i \in DOMAIN col |-> AsInt(str_contains(col[i], lit))]

\* (column == literal): the boolean mask, True as 1.
eq_mask(col, lit) == [i \in DOMAIN col |-> AsInt(col[i] = lit)]

\* str.contains("direct hit") without str.lower().
direct_hit_mask_cased(col) ==
    [i \in DOMAIN col |-> AsInt(str_contains(fillna(col[i]), DirectHit))]

\* column.fillna("").str.lower().str.contains("direct hit")
direct_hit_mask(col) ==
    [i \in DOMAIN col |-> AsInt(str_contains(str_lower(fillna(col[i])), DirectHit))]

\* The grouping column trimmed: working["Player Name"].str.strip().
group_keys_stripped(frame) == [i \in DOMAIN frame |-> str_strip(frame[i].PlayerName)]

\* The grouping column, working["Player Name"], as it stands in the dataset.
group_keys(frame) == Column(frame, "PlayerName")

\* Runs of the rows with a recognized Pick only.
runs_column_matched(frame) ==
    [i \in DOMAIN frame |->
        IF frame[i].Pick \in {CleanPick, GoodThrow, Catch, DropCatch}
        THEN RunsValue(frame[i].Runs) ELSE 0]

\* sum(skipna=False): the sum of a group with a missing value is NaN, which
\* fillna(0) turns into 0.
runs_column_skipna_off(frame) ==
    [i \in DOMAIN frame |->
        IF \E j \in DOMAIN frame :
              /\ frame[j].PlayerName = frame[i].PlayerName
              /\ frame[j].Runs = <<>>
        THEN 0 ELSE RunsValue(frame[i].Runs)]

\* working["Runs"] as groupby(...).sum() adds it up.
runs_column(frame) == [i \in DOMAIN frame |-> RunsValue(frame[i].Runs)]

\* dtype object: the column holds a str next to its numbers.
is_object(col) == \E i \in DOMAIN col : Len(col[i]) = 2

RECURSIVE str_join(_)
str_join(texts) ==
    IF texts = <<>> THEN <<>> ELSE Head(texts)[2] \o str_join(Tail(texts))

\* sum() over the objects of one group: missing cells are skipped, numbers
\* add up, strs concatenate in row order, and a number plus a str raises
\* TypeError.
object_sum(cells) ==
    LET present == SelectSeq(cells, LAMBDA r : r # <<>>)
    IN  IF \A i \in DOMAIN present : Len(present[i]) = 1
        THEN [raised |-> "",
              value |-> <<SumSeq([i \in DOMAIN present |-> present[i][1]])>>]
        ELSE IF \A i \in DOMAIN present : Len(present[i]) = 2
        THEN [raised |-> "", value |-> StrCell(str_join(present))]
        ELSE [raised |-> "TypeError", value |-> <<>>]

\* The cells of the rows of group k, in row order.
RECURSIVE group_cells(_, _, _)
group_cells(values, by, k) ==
    IF values = <<>> THEN <<>>
    ELSE (IF Head(by) = k THEN <<Head(values)>> ELSE <<>>)
         \o group_cells(Tail(values), Tail(by), k)

\* values.groupby(by).sum() on a column of dtype object.
object_groupby_sum(values, by) ==
    LET keys == {by[i] : i \in DOMAIN by}
    IN  [index |-> SortKeys(keys),
         values |-> [k \in keys |-> object_sum(group_cells(values, by, k))]]

Digits == {"0", "1", "2", "3", "4", "5", "6", "7", "8", "9"}

DigitValue ==
    "0" :> 0 @@ "1" :> 1 @@ "2" :> 2 @@ "3" :> 3 @@ "4" :> 4 @@
    "5" :> 5 @@ "6" :> 6 @@ "7" :> 7 @@ "8" :> 8 @@ "9" :> 9

RECURSIVE int_of_digits(_)
int_of_digits(s) ==
    IF s = <<>> THEN 0
    ELSE 10 * int_of_digits(SubSeq(s, 1, Len(s) - 1)) + DigitValue[s[Len(s)]]

\* float(text) as astype(float) calls it on a str: blanks around the text
\* are dropped, then a sign and digits give the number; any other character
\* raises ValueError. (A fraction, an exponent, "inf" and "nan" need
\* characters that no Runs cell of TextRows holds.)
float_of_str(s) ==
    LET t == str_strip(s)
        signed == t # <<>> /\ t[1] \in {"+", "-"}
        body == IF signed THEN Tail(t) ELSE t
    IN  IF body # <<>> /\ \A i \in DOMAIN body : body[i] \in Digits
        THEN [raised |-> "",
              value |-> IF signed /\ t[1] = "-" THEN 0 - int_of_digits(body)
                        ELSE int_of_digits(body)]
        ELSE [raised |-> "ValueError", value |-> 0]

\* pd.to_numeric(errors="coerce") and fillna(0) in place of astype(float):
\* text that is no number becomes 0.
astype_float_coerce(cell) ==
    IF Len(cell) = 2
    THEN [raised |-> "", value |-> float_of_str(cell[2]).value]
    ELSE [raised |-> "", value |-> RunsValue(cell)]

\* astype(float) of one cell of RS.
astype_float(cell) ==
    IF Len(cell) = 2 THEN float_of_str(cell[2])
    ELSE [raised |-> "", value |-> RunsValue(cell)]

\* The columns compute_action_counts returns, in order.
CountColumns == <<"CP", "GT", "C", "DC", "ST", "RO", "MRO", "DH", "RS">>

\* The index of pd.concat(axis=1): every key some Series has.
concat_keys(series) == UNION {DOMAIN series[n].values : n \in DOMAIN series}

-----------------------------------------------------------------------------
(* analysis.py *)

compute_action_counts(df) ==
    LET copied  == DataFrame_copy(df)
        working == [i \in DOMAIN df |->
                       [copied.cells[i] EXCEPT !.Pick = normalize(@),
                                               !.Throw = normalize(@)]]
        by   == group_keys(working)
        pick == Column(working, "Pick")
        throw == Column(working, "Throw")
        cp  == groupby_sum(eq_mask(pick, CleanPick), by)
        gt  == groupby_sum(eq_mask(pick, GoodThrow), by)
        c_catch == groupby_sum(eq_mask(pick, Catch), by)
        dc  == groupby_sum(eq_mask(pick, DropCatch), by)
        st  == groupby_sum(eq_mask(throw, Stumping), by)
        ro  == groupby_sum(eq_mask(throw, RunOut), by)
        mro == groupby_sum(eq_mask(throw, MissedRunOut), by)
        dh  == groupby_sum(direct_hit_mask(Column(working, "ShortDescription")), by)
        runs == Column(working, "Runs")
        sums == object_groupby_sum(runs, by)
        floats == [k \in DOMAIN sums.values |-> astype_float(sums.values[k].value)]
        raised ==
            IF ~is_object(runs) THEN ""
            ELSE IF \E k \in DOMAIN sums.values : sums.values[k].raised # ""
            THEN "TypeError"
            ELSE IF \E k \in DOMAIN floats : floats[k].raised # ""
            THEN "ValueError"
            ELSE ""
        rs  == IF is_object(runs)
               THEN [index |-> sums.index,
                     values |-> [k \in DOMAIN floats |-> floats[k].value]]
               ELSE groupby_sum(runs_column(working), by)
        keys == concat_keys(<<cp, gt, c_catch, dc, st, ro, mro, dh, rs>>)
        result ==
            [index |-> SortKeys(keys),
             columns |-> CountColumns,
             rows  |-> [k \in keys |->
                 [CP  |-> CellOrZero(cp, k),
                  GT  |-> CellOrZero(gt, k),
                  C   |-> CellOrZero(c_catch, k),
                  DC  |-> CellOrZero(dc, k),
                  ST  |-> CellOrZero(st, k),
                  RO  |-> CellOrZero(ro, k),
                  MRO |-> CellOrZero(mro, k),
                  DH  |-> CellOrZero(dh, k),
                  RS  |-> CellOrZero(rs, k)]]]
    IN  [df |-> CallerCells(df, copied, working),
         raised |-> raised,
         result |-> IF raised = "" THEN result ELSE None]

\* The PS without the RS term.
PerformanceScoreNoRS(row, weights) ==
      row.CP  * weights.WCP
    + row.GT  * weights.WGT
    + row.C   * weights.WC
    + row.DC  * weights.WDC
    + row.ST  * weights.WST
    + row.RO  * weights.WRO
    + row.MRO * weights.WMRO
    + row.DH  * weights.WDH

\* The PS of one row, in halves; RS enters with weight 1.
PerformanceScore(row, weights) ==
      row.CP  * weights.WCP
    + row.GT  * weights.WGT
    + row.C   * weights.WC
    + row.DC  * weights.WDC
    + row.ST  * weights.WST
    + row.RO  * weights.WRO
    + row.MRO * weights.WMRO
    + row.DH  * weights.WDH
    + 2 * row.RS

\* The scorer reading each column with df.get(name, 0): a column the table
\* lacks counts as 0.
compute_ps_get(counts_df, weights) ==
    LET filled(row) ==
            [f \in {CountColumns[n] : n \in DOMAIN CountColumns} |->
                IF f \in DOMAIN row THEN row[f] ELSE 0]
        df == [index |-> counts_df.index,
               columns |-> Append(counts_df.columns, "PS"),
               rows  |-> [k \in DOMAIN counts_df.rows |->
                   [f \in DOMAIN counts_df.rows[k] \cup {"PS"} |->
                       IF f = "PS"
                       THEN PerformanceScore(filled(counts_df.rows[k]), weights)
                       ELSE counts_df.rows[k][f]]]]
    IN  [counts_df |-> counts_df, raised |-> "", result |-> df]

compute_ps(counts_df, weights) ==
    LET copied == DataFrame_copy(counts_df)
        raised ==
            IF \E n \in DOMAIN CountColumns :
                  \A m \in DOMAIN copied.cells.columns :
                      copied.cells.columns[m] # CountColumns[n]
            THEN "KeyError" ELSE ""
        df == [index |-> copied.cells.index,
               columns |-> Append(copied.cells.columns, "PS"),
               rows  |-> [k \in DOMAIN copied.cells.rows |->
                   [CP  |-> copied.cells.rows[k].CP,
                    GT  |-> copied.cells.rows[k].GT,
                    C   |-> copied.cells.rows[k].C,
                    DC  |-> copied.cells.rows[k].DC,
                    ST  |-> copied.cells.rows[k].ST,
                    RO  |-> copied.cells.rows[k].RO,
                    MRO |-> copied.cells.rows[k].MRO,
                    DH  |-> copied.cells.rows[k].DH,
                    RS  |-> copied.cells.rows[k].RS,
                    PS  |-> PerformanceScore(copied.cells.rows[k], weights)]]]
    IN  [counts_df |-> IF raised = "" THEN CallerCells(counts_df, copied, df)
                       ELSE counts_df,
         raised |-> raised,
         result |-> IF raised = "" THEN df ELSE None]

\* compute_ps(compute_action_counts(df), weights)
summarize_players(df, weights) ==
    LET counted == compute_action_counts(df)
        scored == compute_ps(counted.result, weights)
    IN  IF counted.raised # ""
        THEN [raised |-> counted.raised, result |-> None]
        ELSE [raised |-> scored.raised, result |-> scored.result]

-----------------------------------------------------------------------------
(* fielding_analysis.py *)

\* The rows of one group, in dataset order.
RECURSIVE GroupRows(_, _)
GroupRows(frame, k) ==
    IF frame = <<>> THEN <<>>
    ELSE IF Head(frame).PlayerName = k
         THEN <<Head(frame)>> \o GroupRows(Tail(frame), k)
         ELSE GroupRows(Tail(frame), k)

\* g[col].str.contains(lit).sum() in place of (g[col] == lit).sum().
CountEqual_contains(g, col, lit) ==
    Cardinality({i \in DOMAIN g : str_contains(g[i][col], lit)})

\* (g[col] == lit).sum()
CountEqual(g, col, lit) == Cardinality({i \in DOMAIN g : g[i][col] = lit})

\* g["Short Description"].str.contains("direct hit").sum()
CountContains(g, col, pat) ==
    Cardinality({i \in DOMAIN g : str_contains(g[i][col], pat)})

compute_matrix(df, weights) ==
    LET copied  == DataFrame_copy(df)
        working == [i \in DOMAIN df |->
                       [copied.cells[i] EXCEPT !.Pick = normalize(@),
                                               !.Throw = normalize(@),
                                               !.ShortDescription = normalize(@)]]
        by    == group_keys(working)
        index == SortKeys({by[i] : i \in DOMAIN by})
        runs  == Column(working, "Runs")
        sums  == object_groupby_sum(runs, by)
        raised ==
            IF ~is_object(runs) THEN ""
            ELSE IF \E k \in DOMAIN sums.values :
                       \/ sums.values[k].raised # ""
                       \/ Len(sums.values[k].value) = 2
            THEN "TypeError"
            ELSE ""
        counts(k) ==
            LET g == GroupRows(working, k)
            IN  [CP  |-> CountEqual(g, "Pick", CleanPick),
                 GT  |-> CountEqual(g, "Pick", GoodThrow),
                 C   |-> CountEqual(g, "Pick", Catch),
                 DC  |-> CountEqual(g, "Pick", DropCatch),
                 ST  |-> CountEqual(g, "Throw", Stumping),
                 RO  |-> CountEqual(g, "Throw", RunOut),
                 MRO |-> CountEqual(g, "Throw", MissedRunOut),
                 DH  |-> CountContains(g, "ShortDescription", DirectHit),
                 RS  |-> SumSeq(runs_column(g))]
        matrix == [n \in DOMAIN index |->
                      LET r == counts(index[n])
                      IN  [PlayerName |-> index[n],
                           CP |-> r.CP, GT |-> r.GT, C |-> r.C, DC |-> r.DC,
                           ST |-> r.ST, RO |-> r.RO, MRO |-> r.MRO, DH |-> r.DH,
                           RS |-> r.RS,
                           PS |-> PerformanceScore(r, weights)]]
    IN  [df |-> CallerCells(df, copied, working),
         raised |-> raised,
         result |-> IF raised = "" THEN matrix ELSE None]

-----------------------------------------------------------------------------
(* The pipeline: the dataset is loaded row by row, then either main.py's   *)
(* summarize_players (compute_action_counts, then compute_ps) or           *)
(* fielding_analysis.py's compute_matrix runs on it.                       *)

VARIABLES
    df,       \* the dataset: a sequence of rows
    pc,       \* "input", "counted", "malformed", "scored", "matrix", "raised"
    counts,   \* what compute_action_counts returned, or None
    summary,  \* what compute_ps returned, or None
    matrix,   \* what compute_matrix returned, or None
    weights,  \* the Weights handed to compute_ps or compute_matrix, or None
    raised,   \* <<function, exception type>> once a call has raised, or <<>>
    \* hangman.py
    hpc,              \* "idle", "loop", "won", "lost" or "exit"
    word,             \* the word of the round
    word_letters,     \* letters still to guess
    guessed_letters,  \* correct guesses and revealed letters
    wrong_guesses,    \* incorrect guesses
    attempts,         \* attempts left
    accepted          \* inputs of the round that were not rejected (a count
                      \* kept beside the program's state)

pipeline == <<df, pc, counts, summary, matrix, weights, raised>>

game == <<hpc, word, word_letters, guessed_letters, wrong_guesses, attempts,
          accepted>>

vars == <<df, pc, counts, summary, matrix, weights, raised,
          hpc, word, word_letters, guessed_letters, wrong_guesses, attempts,
          accepted>>

\* hangman() has not been called.
NoGame ==
    /\ hpc = "idle"
    /\ word = <<>>
    /\ word_letters = {}
    /\ guessed_letters = {}
    /\ wrong_guesses = {}
    /\ attempts = 0
    /\ accepted = 0

Init ==
    /\ df = <<>>
    /\ pc = "input"
    /\ counts = None
    /\ summary = None
    /\ matrix = None
    /\ weights = None
    /\ raised = <<>>
    /\ NoGame

\* The loader supplies one more row of the dataset.
AddEvent(row) ==
    /\ pc = "input"
    /\ Len(df) < MaxEvents
    /\ df' = Append(df, row)
    /\ UNCHANGED <<pc, counts, summary, matrix, weights, raised>>
    /\ UNCHANGED game

\* counts = compute_action_counts(df)
ComputeActionCounts ==
    /\ pc = "input"
    /\ LET call == compute_action_counts(df)
       IN  /\ df' = call.df
           /\ counts' = call.result
           /\ pc' = IF call.raised = "" THEN "counted" ELSE "raised"
           /\ raised' = IF call.raised = "" THEN <<>>
                         ELSE <<"compute_action_counts", call.raised>>
    /\ UNCHANGED <<summary, matrix, weights>>
    /\ UNCHANGED game

\* A caller of compute_ps that hands it a table of counts without column c.
DropColumn(c) ==
    /\ pc = "counted"
    /\ counts' =
          [index |-> counts.index,
           columns |-> SelectSeq(counts.columns, LAMBDA f : f # c),
           rows |-> [k \in DOMAIN counts.rows |->
                        [f \in DOMAIN counts.rows[k] \ {c} |-> counts.rows[k][f]]]]
    /\ pc' = "malformed"
    /\ UNCHANGED <<df, summary, matrix, weights, raised>>
    /\ UNCHANGED game

\* return compute_ps(counts, weights)
ComputePs(w) ==
    /\ pc \in {"counted", "malformed"}
    /\ LET call == compute_ps(counts, w)
       IN  /\ counts' = call.counts_df
           /\ summary' = call.result
           /\ pc' = IF call.raised = "" THEN "scored" ELSE "raised"
           /\ raised' = IF call.raised = "" THEN <<>>
                         ELSE <<"compute_ps", call.raised>>
    /\ weights' = w
    /\ UNCHANGED <<df, matrix>>
    /\ UNCHANGED game

\* matrix = compute_matrix(df, w) on a dataset with at least one row
ComputeMatrix(w) ==
    /\ pc = "input"
    /\ df # <<>>
    /\ LET call == compute_matrix(df, w)
       IN  /\ df' = call.df
           /\ matrix' = call.result
           /\ pc' = IF call.raised = "" THEN "matrix" ELSE "raised"
           /\ raised' = IF call.raised = "" THEN <<>>
                         ELSE <<"compute_matrix", call.raised>>
    /\ weights' = w
    /\ UNCHANGED <<counts, summary>>
    /\ UNCHANGED game

\* compute_matrix on a dataset without rows: groupby.apply has no group to
\* call the lambda on and returns an empty DataFrame, and what
\* matrix["CP"] = <DataFrame> does with it depends on the pandas release:
\* it raises ValueError or leaves an empty matrix.
ComputeMatrixEmpty(w) ==
    /\ pc = "input"
    /\ df = <<>>
    /\ \/ /\ matrix' = compute_matrix(df, w).result
          /\ pc' = "matrix"
          /\ raised' = <<>>
       \/ /\ matrix' = None
          /\ pc' = "raised"
          /\ raised' = <<"compute_matrix", "ValueError">>
    /\ weights' = w
    /\ UNCHANGED <<df, counts, summary>>
    /\ UNCHANGED game

Next ==
    \/ \E row \in Rows : AddEvent(row)
    \/ ComputeActionCounts
    \/ \E w \in WeightConfigs : ComputePs(w)
    \/ \E w \in WeightConfigs : ComputeMatrix(w)
    \/ \E w \in WeightConfigs : ComputeMatrixEmpty(w)

Spec == Init /\ [][Next]_vars

\* compute_action_counts as a function of its argument: any dataset of up
\* to MaxShardEvents rows of ShardRows is counted.
InitShards ==
    /\ df \in UNION {[1..n -> ShardRows] : n \in 0..MaxShardEvents}
    /\ pc = "input"
    /\ counts = None
    /\ summary = None
    /\ matrix = None
    /\ weights = None
    /\ raised = <<>>
    /\ NoGame

NextShards == ComputeActionCounts

SpecShards == InitShards /\ [][NextShards]_vars

\* The pipeline on datasets whose Runs column may hold text, and with callers
\* that score a table of counts after dropping one of its columns.
NextErrors ==
    \/ \E row \in TextRows : AddEvent(row)
    \/ ComputeActionCounts
    \/ \E n \in DOMAIN CountColumns : DropColumn(CountColumns[n])
    \/ \E w \in WeightConfigs : ComputePs(w)
    \/ \E w \in WeightConfigs : ComputeMatrix(w)
    \/ \E w \in WeightConfigs : ComputeMatrixEmpty(w)

SpecErrors == Init /\ [][NextErrors]_vars

-----------------------------------------------------------------------------
(* hangman.py (task-2): one call of hangman() is a round of the game; a    *)
(* "yes" at its end calls hangman() again.                                 *)

\* len(HANGMAN_PICS)
LenHangmanPics == 7

\* Two of the words of categories: "java" repeats a letter.
Words == { <<"j","a","v","a">>, <<"l","i","o","n">> }

\* set(word), each letter a str of length one.
set(w) == {<<w[i]>> : i \in DOMAIN w}

\* str.isalpha() on the characters a player types here.
isalpha(s) ==
    /\ s # <<>>
    /\ \A i \in DOMAIN s :
          \/ s[i] \in DOMAIN LowerOf
          \/ \E n \in DOMAIN LowerCase : LowerCase[n] = s[i]

\* The lines a player types at "Guess a letter: ": the letters of the
\* words, four other letters, two capitals, the hint, and lines that are no
\* single letter.
Typed ==
       {<<c>> : c \in {"j", "a", "v", "l", "i", "o", "n"}}
  \cup {<<c>> : c \in {"x", "q", "z", "e"}}
  \cup {<<"A">>, <<"X">>, <<"*">>, <<>>, <<"a","b">>, <<"1">>, <<" ">>}

\* The answers to "Do you want to play again? (yes/no): ".
Answers == { <<"y","e","s">>, <<"Y","E","S">>, <<"n","o">>, <<>> }

\* The round is reported won while attempts are left.
report_by_attempts(letters, left) == IF left > 0 THEN "won" ELSE "lost"

\* Step 10: "Congratulations" if no letter is left to guess, else
\* "Game Over".
report(letters, left) == IF letters = {} THEN "won" ELSE "lost"

\* The condition of the while loop, then Step 10 once it is false.
after_input(letters, left) ==
    IF left > 0 /\ Cardinality(letters) > 0 THEN "loop"
    ELSE report(letters, left)

\* Steps 2 to 4 of hangman(): a word is chosen and the state initialised.
NewRound ==
    \E w \in Words :
        /\ word' = w
        /\ word_letters' = set(w)
        /\ guessed_letters' = {}
        /\ wrong_guesses' = {}
        /\ attempts' = LenHangmanPics - 1
        /\ accepted' = 0
        /\ hpc' = after_input(set(w), LenHangmanPics - 1)

\* hangman() at the end of the script.
Start ==
    /\ hpc = "idle"
    /\ NewRound
    /\ UNCHANGED pipeline

\* One pass of the main loop on the line the player typed.
Guess(line) ==
    /\ hpc = "loop"
    /\ LET guess == str_lower(line)
       IN  IF guess = <<"*">>
           THEN IF word_letters # {}
                THEN \E revealed \in word_letters :
                        /\ guessed_letters' = guessed_letters \cup {revealed}
                        /\ word_letters' = word_letters \ {revealed}
                        /\ attempts' = attempts - 1
                        /\ accepted' = accepted + 1
                        /\ UNCHANGED wrong_guesses
                ELSE UNCHANGED <<word_letters, guessed_letters,
                                 wrong_guesses, attempts, accepted>>
           ELSE IF Len(guess) # 1 \/ ~isalpha(guess)
           THEN UNCHANGED <<word_letters, guessed_letters, wrong_guesses,
                            attempts, accepted>>
           ELSE IF guess \in guessed_letters \/ guess \in wrong_guesses
           THEN UNCHANGED <<word_letters, guessed_letters, wrong_guesses,
                            attempts, accepted>>
           ELSE IF guess \in word_letters
           THEN /\ guessed_letters' = guessed_letters \cup {guess}
                /\ word_letters' = word_letters \ {guess}
                /\ accepted' = accepted + 1
                /\ UNCHANGED <<wrong_guesses, attempts>>
           ELSE /\ wrong_guesses' = wrong_guesses \cup {guess}
                /\ attempts' = attempts - 1
                /\ accepted' = accepted + 1
                /\ UNCHANGED <<word_letters, guessed_letters>>
    /\ hpc' = after_input(word_letters', attempts')
    /\ UNCHANGED <<word, pipeline>>

\* Step 11: "yes" in any letter case plays another round.
PlayAgain(again) ==
    /\ hpc \in {"won", "lost"}
    /\ IF str_lower(again) = <<"y","e","s">>
       THEN NewRound
       ELSE /\ hpc' = "exit"
            /\ UNCHANGED <<word, word_letters, guessed_letters, wrong_guesses,
                           attempts, accepted>>
    /\ UNCHANGED pipeline

NextHangman ==
    \/ Start
    \/ \E line \in Typed : Guess(line)
    \/ \E again \in Answers : PlayAgain(again)

SpecHangman == Init /\ [][NextHangman]_vars

-----------------------------------------------------------------------------
(* Vocabulary of the properties *)

Players(frame) == {frame[i].PlayerName : i \in DOMAIN frame}

EventsOf(frame, p) == {i \in DOMAIN frame : frame[i].PlayerName = p}

Counters == {"CP", "GT", "C", "DC", "ST", "RO", "MRO", "DH"}

PickOutcomes == {CleanPick, GoodThrow, Catch, DropCatch}

ThrowOutcomes == {Stumping, RunOut, MissedRunOut}

\* The description flags a direct hit, whatever its letter case.
IsDirectHit(desc) == str_contains(str_lower(fillna(desc)), DirectHit)

\* The number of p's events that match each counter's classification.
MatchingEvents(frame, p) ==
    LET n(col, lit) ==
            Cardinality({i \in EventsOf(frame, p) : normalize(frame[i][col]) = lit})
    IN  [CP  |-> n("Pick", CleanPick),
         GT  |-> n("Pick", GoodThrow),
         C   |-> n("Pick", Catch),
         DC  |-> n("Pick", DropCatch),
         ST  |-> n("Throw", Stumping),
         RO  |-> n("Throw", RunOut),
         MRO |-> n("Throw", MissedRunOut),
         DH  |-> Cardinality({i \in EventsOf(frame, p) :
                                 IsDirectHit(frame[i].ShortDescription)})]

\* The sum of the runs of p's events; a missing value has nothing to add.
RECURSIVE RunsTotal(_, _)
RunsTotal(frame, p) ==
    IF frame = <<>> THEN 0
    ELSE (IF Head(frame).PlayerName = p /\ Len(Head(frame).Runs) = 1
          THEN Head(frame).Runs[1] ELSE 0)
         + RunsTotal(Tail(frame), p)

\* The dataset without its i-th row.
Without(frame, i) == SubSeq(frame, 1, i - 1) \o SubSeq(frame, i + 1, Len(frame))

\* Column f of player p in a table of compute_action_counts; 0 without a row.
CountsCell(table, p, f) ==
    IF p \in DOMAIN table.rows THEN table.rows[p][f] ELSE 0

\* Column f of player p in a matrix of compute_matrix; 0 without a row.
MatrixCell(m, p, f) ==
    IF \E n \in DOMAIN m : m[n].PlayerName = p
    THEN m[CHOOSE n \in DOMAIN m : m[n].PlayerName = p][f]
    ELSE 0

\* The rows of the matrix that carry player p.
MatrixRowsOf(p) == {n \in DOMAIN matrix : matrix[n].PlayerName = p}

-----------------------------------------------------------------------------
\* C1: for every dataset and every player in it, each of the eight counters
\* CP, GT, C, DC, ST, RO, MRO, DH that compute_action_counts and
\* compute_matrix return is a natural number equal to the number of that
\* player's events whose normalized Pick, Throw or Short Description matches
\* the counter's classification.
C1_CountersAreMatchCounts ==
    /\ pc = "counted" =>
          \A p \in Players(df) :
              LET expected == MatchingEvents(df, p)
              IN  /\ p \in DOMAIN counts.rows
                  /\ \A f \in Counters :
                        /\ counts.rows[p][f] \in Nat
                        /\ counts.rows[p][f] = expected[f]
    /\ pc = "matrix" =>
          \A p \in Players(df) :
              LET expected == MatchingEvents(df, p)
              IN  /\ MatrixRowsOf(p) # {}
                  /\ \A n \in MatrixRowsOf(p) : \A f \in Counters :
                        /\ matrix[n][f] \in Nat
                        /\ matrix[n][f] = expected[f]

\* A player with two clean picks (one of them padded and re-cased), a
\* stumping and a direct hit has been counted.
C1_Witness ==
    /\ pc = "counted"
    /\ \E p \in DOMAIN counts.rows :
          /\ counts.rows[p].CP = 2
          /\ counts.rows[p].ST = 1
          /\ counts.rows[p].DH = 0

-----------------------------------------------------------------------------
\* C2: for every dataset and every player, RS is the exact sum of the runs
\* of all of the player's events, negative values included, whether or not
\* the events matched a pick, throw or direct-hit classification.
C2_RSIsRunsSum ==
    /\ pc = "counted" =>
          \A p \in Players(df) :
              /\ p \in DOMAIN counts.rows
              /\ counts.rows[p].RS = RunsTotal(df, p)
    /\ pc = "matrix" =>
          \A p \in Players(df) : \A n \in MatrixRowsOf(p) :
              matrix[n].RS = RunsTotal(df, p)

\* A player whose events matched no classification and conceded runs has a
\* negative RS.
C2_Witness ==
    /\ pc = "counted"
    /\ \E p \in DOMAIN counts.rows :
          /\ \A f \in Counters : counts.rows[p][f] = 0
          /\ counts.rows[p].RS < 0
          /\ Cardinality(EventsOf(df, p)) = 2

-----------------------------------------------------------------------------
\* Rows put in another player's place to see whether this player's PS moves.
OtherRows ==
    { [CP |-> 0, GT |-> 0, C |-> 0, DC |-> 0, ST |-> 0, RO |-> 0,
       MRO |-> 0, DH |-> 0, RS |-> 0],
      [CP |-> 3, GT |-> 1, C |-> 2, DC |-> 5, ST |-> 1, RO |-> 4,
       MRO |-> 2, DH |-> 6, RS |-> -7] }

\* C3: for every aggregate and every weight configuration, compute_ps sets
\* PS = CP*WCP + GT*WGT + C*WC + DC*WDC + ST*WST + RO*WRO + MRO*WMRO + DH*WDH
\* + RS (here in halves, so RS counts twice) from the player's own row, and
\* changing another player's row does not change it; compute_matrix sets PS
\* by the same formula.
C3_PSIsLinearFormula ==
    /\ pc = "scored" =>
          \A p \in DOMAIN counts.rows :
              LET r == counts.rows[p]
              IN  /\ summary.rows[p].PS =
                           r.CP * weights.WCP + r.GT * weights.WGT
                         + r.C * weights.WC + r.DC * weights.WDC
                         + r.ST * weights.WST + r.RO * weights.WRO
                         + r.MRO * weights.WMRO + r.DH * weights.WDH
                         + 2 * r.RS
                  /\ \A q \in DOMAIN counts.rows \ {p} : \A other \in OtherRows :
                        compute_ps([counts EXCEPT !.rows[q] = other],
                                   weights).result.rows[p].PS
                            = summary.rows[p].PS
    /\ pc = "matrix" =>
          \A n \in DOMAIN matrix :
              LET r == matrix[n]
              IN  r.PS =   r.CP * weights.WCP + r.GT * weights.WGT
                         + r.C * weights.WC + r.DC * weights.WDC
                         + r.ST * weights.WST + r.RO * weights.WRO
                         + r.MRO * weights.WMRO + r.DH * weights.WDH
                         + 2 * r.RS

\* Two players have been scored with the analysis defaults: one with a
\* clean pick (weight 0.5) that saved a run, PS = 1.5, one with a negative
\* RS.
C3_Witness ==
    /\ pc = "scored"
    /\ weights = AnalysisWeights
    /\ \E p, q \in DOMAIN summary.rows :
          /\ p # q
          /\ summary.rows[p].CP = 1
          /\ summary.rows[p].RS = 1
          /\ summary.rows[p].PS = 3
          /\ summary.rows[q].RS < 0

-----------------------------------------------------------------------------
\* The outcome is not empty once normalized (so it is not empty as given).
NonEmpty(cell) == normalize(cell) # <<>>

PickSum(row) == row.CP + row.GT + row.C + row.DC

ThrowSum(row) == row.ST + row.RO + row.MRO

\* C4: each event is counted in at most one of CP, GT, C, DC and in at most
\* one of ST, RO, MRO; so for every player CP+GT+C+DC is at most the number
\* of the player's events with a non-empty pick outcome and ST+RO+MRO at
\* most the number of those with a non-empty throw outcome.
C4_OneBucketPerEvent ==
    /\ pc = "counted" =>
          /\ \A p \in Players(df) :
                /\ PickSum(counts.rows[p]) <=
                      Cardinality({i \in EventsOf(df, p) : NonEmpty(df[i].Pick)})
                /\ ThrowSum(counts.rows[p]) <=
                      Cardinality({i \in EventsOf(df, p) : NonEmpty(df[i].Throw)})
          /\ \A i \in DOMAIN df :
                LET one == compute_action_counts(<<df[i]>>).result.rows[df[i].PlayerName]
                IN  PickSum(one) <= 1 /\ ThrowSum(one) <= 1
    /\ pc = "matrix" =>
          /\ \A n \in DOMAIN matrix :
                /\ PickSum(matrix[n]) <=
                      Cardinality({i \in EventsOf(df, matrix[n].PlayerName) :
                                      NonEmpty(df[i].Pick)})
                /\ ThrowSum(matrix[n]) <=
                      Cardinality({i \in EventsOf(df, matrix[n].PlayerName) :
                                      NonEmpty(df[i].Throw)})
          /\ \A i \in DOMAIN df :
                LET one == compute_matrix(<<df[i]>>, weights).result[1]
                IN  PickSum(one) <= 1 /\ ThrowSum(one) <= 1

\* A player with a drop catch (which also reads "catch") and an unrecognized
\* pick: two non-empty pick outcomes, one of them counted, once.
C4_Witness ==
    /\ pc = "counted"
    /\ \E p \in DOMAIN counts.rows :
          /\ counts.rows[p].DC = 1
          /\ PickSum(counts.rows[p]) = 1
          /\ Cardinality({i \in EventsOf(df, p) : NonEmpty(df[i].Pick)}) = 2

-----------------------------------------------------------------------------
\* Pick and Throw outcomes put in an event's place to see whether DH moves.
OtherOutcomes ==
    { [Pick |-> DropCatch, Throw |-> NaN],
      [Pick |-> <<>>, Throw |-> RunOut],
      [Pick |-> CleanPick, Throw |-> Stumping],
      [Pick |-> <<"f","u","m","b","l","e">>, Throw |-> MissedRunOut] }

PickColumn(lit) ==
    CASE lit = CleanPick -> "CP" [] lit = GoodThrow -> "GT"
      [] lit = Catch -> "C" [] lit = DropCatch -> "DC"

ThrowColumn(lit) ==
    CASE lit = Stumping -> "ST" [] lit = RunOut -> "RO" [] lit = MissedRunOut -> "MRO"

\* C5: an event whose description contains "direct hit" in any letter case
\* adds one to DH whatever its pick and throw outcomes are (DH stays the same
\* when they are replaced), and it still adds one to the pick counter and to
\* the throw counter it matches.
C5_DirectHitIndependent ==
    /\ pc = "counted" =>
          \A i \in DOMAIN df :
              IsDirectHit(df[i].ShortDescription) =>
                  LET p    == df[i].PlayerName
                      rest == compute_action_counts(Without(df, i)).result
                  IN  /\ counts.rows[p].DH = CountsCell(rest, p, "DH") + 1
                      /\ \A lit \in PickOutcomes :
                            normalize(df[i].Pick) = lit =>
                                counts.rows[p][PickColumn(lit)]
                                    = CountsCell(rest, p, PickColumn(lit)) + 1
                      /\ \A lit \in ThrowOutcomes :
                            normalize(df[i].Throw) = lit =>
                                counts.rows[p][ThrowColumn(lit)]
                                    = CountsCell(rest, p, ThrowColumn(lit)) + 1
                      /\ \A o \in OtherOutcomes :
                            compute_action_counts(
                                [df EXCEPT ![i].Pick = o.Pick, ![i].Throw = o.Throw]
                            ).result.rows[p].DH = counts.rows[p].DH
    /\ pc = "matrix" =>
          \A i \in DOMAIN df :
              IsDirectHit(df[i].ShortDescription) =>
                  LET p    == df[i].PlayerName
                      rest == compute_matrix(Without(df, i), weights).result
                  IN  /\ MatrixCell(matrix, p, "DH") = MatrixCell(rest, p, "DH") + 1
                      /\ \A lit \in PickOutcomes :
                            normalize(df[i].Pick) = lit =>
                                MatrixCell(matrix, p, PickColumn(lit))
                                    = MatrixCell(rest, p, PickColumn(lit)) + 1
                      /\ \A lit \in ThrowOutcomes :
                            normalize(df[i].Throw) = lit =>
                                MatrixCell(matrix, p, ThrowColumn(lit))
                                    = MatrixCell(rest, p, ThrowColumn(lit)) + 1
                      /\ \A o \in OtherOutcomes :
                            MatrixCell(
                                compute_matrix(
                                    [df EXCEPT ![i].Pick = o.Pick, ![i].Throw = o.Throw],
                                    weights).result,
                                p, "DH") = MatrixCell(matrix, p, "DH")

\* A drop catch described as "DIRECT HIT" has been counted in DC and in DH,
\* next to a good throw with a run out and a direct hit.
C5_Witness ==
    /\ pc = "counted"
    /\ \E i \in DOMAIN df :
          /\ normalize(df[i].Pick) = DropCatch
          /\ df[i].ShortDescription = <<"D","I","R","E","C","T"," ","H","I","T">>
          /\ counts.rows[df[i].PlayerName].DC = 1
          /\ counts.rows[df[i].PlayerName].DH = 2
          /\ counts.rows[df[i].PlayerName].RO = 1

-----------------------------------------------------------------------------
\* The upper-case letter of each lower-case letter.
UpperOf ==
    [c \in {LowerCase[i] : i \in DOMAIN LowerCase} |->
        UpperCase[CHOOSE i \in DOMAIN LowerCase : LowerCase[i] = c]]

str_upper(s) == [i \in 1..Len(s) |-> IF s[i] \in DOMAIN UpperOf THEN UpperOf[s[i]] ELSE s[i]]

\* Spellings of an outcome that differ from it in letter case and in leading
\* and trailing whitespace only.
Respellings(cell) ==
    IF cell = NaN THEN {}
    ELSE { <<" ">> \o str_upper(cell) \o <<" ">>,
           <<"\t", " ">> \o cell \o <<"\n">>,
           IF cell = <<>> THEN <<" ">>
           ELSE <<str_upper(<<Head(cell)>>)[1]>> \o Tail(cell) }

\* C6: replacing an event's Pick or Throw by a spelling that differs only in
\* letter case and in leading or trailing whitespace leaves the whole
\* aggregate unchanged.
C6_CaseAndPaddingInvariant ==
    /\ pc = "counted" =>
          \A i \in DOMAIN df :
              /\ \A v \in Respellings(df[i].Pick) :
                    compute_action_counts([df EXCEPT ![i].Pick = v]).result = counts
              /\ \A v \in Respellings(df[i].Throw) :
                    compute_action_counts([df EXCEPT ![i].Throw = v]).result = counts
    /\ pc = "matrix" =>
          \A i \in DOMAIN df :
              /\ \A v \in Respellings(df[i].Pick) :
                    compute_matrix([df EXCEPT ![i].Pick = v], weights).result = matrix
              /\ \A v \in Respellings(df[i].Throw) :
                    compute_matrix([df EXCEPT ![i].Throw = v], weights).result = matrix

\* The dataset holds " Clean Pick " and "clean pick" for one player, both
\* counted in CP, and a throw spelled "Run Out\t" counted in RO.
C6_Witness ==
    /\ pc = "counted"
    /\ \E i, j \in DOMAIN df :
          /\ df[i].PlayerName = df[j].PlayerName
          /\ df[i].Pick = CleanPick
          /\ df[j].Pick = <<" ","C","l","e","a","n"," ","P","i","c","k"," ">>
          /\ counts.rows[df[i].PlayerName].CP = 2
    /\ \E p \in DOMAIN counts.rows : counts.rows[p].ST = 1

-----------------------------------------------------------------------------
\* C7: an event whose pick (throw) outcome is empty, missing or not a
\* recognized value adds to none of the pick (throw) counters, and its runs
\* are still added to its player's RS; the aggregation returns a table.
C7_UnrecognizedCountsNothing ==
    /\ pc = "counted" =>
          \A i \in DOMAIN df :
              LET p    == df[i].PlayerName
                  rest == compute_action_counts(Without(df, i)).result
                  runs == IF Len(df[i].Runs) = 1 THEN df[i].Runs[1] ELSE 0
              IN  /\ p \in DOMAIN counts.rows
                  /\ normalize(df[i].Pick) \notin PickOutcomes =>
                        /\ \A f \in {"CP", "GT", "C", "DC"} :
                              counts.rows[p][f] = CountsCell(rest, p, f)
                        /\ counts.rows[p].RS = CountsCell(rest, p, "RS") + runs
                  /\ normalize(df[i].Throw) \notin ThrowOutcomes =>
                        /\ \A f \in {"ST", "RO", "MRO"} :
                              counts.rows[p][f] = CountsCell(rest, p, f)
                        /\ counts.rows[p].RS = CountsCell(rest, p, "RS") + runs
    /\ pc = "matrix" =>
          \A i \in DOMAIN df :
              LET p    == df[i].PlayerName
                  rest == compute_matrix(Without(df, i), weights).result
                  runs == IF Len(df[i].Runs) = 1 THEN df[i].Runs[1] ELSE 0
              IN  /\ MatrixRowsOf(p) # {}
                  /\ normalize(df[i].Pick) \notin PickOutcomes =>
                        /\ \A f \in {"CP", "GT", "C", "DC"} :
                              MatrixCell(matrix, p, f) = MatrixCell(rest, p, f)
                        /\ MatrixCell(matrix, p, "RS") = MatrixCell(rest, p, "RS") + runs
                  /\ normalize(df[i].Throw) \notin ThrowOutcomes =>
                        /\ \A f \in {"ST", "RO", "MRO"} :
                              MatrixCell(matrix, p, f) = MatrixCell(rest, p, f)
                        /\ MatrixCell(matrix, p, "RS") = MatrixCell(rest, p, "RS") + runs

\* A player with a "fumble" pick that conceded a run and a missing pick: no
\* pick counter moved, the run out of the second event is counted, and RS
\* holds both events' runs (-1 + 1).
C7_Witness ==
    /\ pc = "counted"
    /\ \E i, j \in DOMAIN df :
          /\ df[i].PlayerName = df[j].PlayerName
          /\ df[i].Pick = <<"f","u","m","b","l","e">>
          /\ df[i].Runs = <<-1>>
          /\ df[j].Pick = NaN
          /\ PickSum(counts.rows[df[i].PlayerName]) = 0
          /\ counts.rows[df[i].PlayerName].RO = 1
          /\ counts.rows[df[i].PlayerName].RS = 0

-----------------------------------------------------------------------------
\* The events of the dataset whose player name is exactly k, in order.
EventsNamed(frame, k) == SelectSeq(frame, LAMBDA row : row.PlayerName = k)

Range(seq) == {seq[n] : n \in DOMAIN seq}

\* C8 as stated: the grouping key is the trimmed player name, compared
\* case-sensitively: the players of the output are the distinct trimmed
\* names (names that differ in surrounding whitespace only share a row,
\* names that differ in letter case only do not), and a row's RS adds up the
\* runs of all events whose trimmed name is the row's.
C8_GroupsByTrimmedName ==
    pc = "counted" =>
        /\ Len(counts.index) =
              Cardinality({str_strip(df[i].PlayerName) : i \in DOMAIN df})
        /\ \A k \in DOMAIN counts.rows :
              counts.rows[k].RS =
                  SumSeq([i \in DOMAIN df |->
                      IF str_strip(df[i].PlayerName) = str_strip(k)
                         /\ Len(df[i].Runs) = 1
                      THEN df[i].Runs[1] ELSE 0])

\* C8 (amended): the aggregators group events by the player name exactly as
\* it stands in the dataset, untrimmed and case-sensitive: each row is the
\* aggregate of the events with exactly that name, so two events whose names
\* differ only in leading or trailing whitespace, or only in letter case,
\* are aggregated into two distinct players.
C8_GroupsByExactName ==
    /\ pc = "counted" =>
          /\ Len(counts.index) = Cardinality(Players(df))
          /\ \A i, j \in DOMAIN df :
                df[i].PlayerName # df[j].PlayerName =>
                    /\ df[i].PlayerName \in DOMAIN counts.rows
                    /\ df[j].PlayerName \in DOMAIN counts.rows
          /\ \A k \in DOMAIN counts.rows :
                LET alone == compute_action_counts(EventsNamed(df, k)).result
                IN  k \in DOMAIN alone.rows /\ counts.rows[k] = alone.rows[k]
    /\ pc = "matrix" =>
          /\ Len(matrix) = Cardinality(Players(df))
          /\ \A n \in DOMAIN matrix :
                <<matrix[n]>> =
                    compute_matrix(EventsNamed(df, matrix[n].PlayerName), weights).result

\* "A" and " A" fielded one event each and have one row each.
C8_Witness ==
    /\ pc = "counted"
    /\ Players(df) = {<<"A">>, <<" ", "A">>}
    /\ counts.index = << <<" ", "A">>, <<"A">> >>
    /\ counts.rows[<<"A">>].RS # counts.rows[<<" ", "A">>].RS

-----------------------------------------------------------------------------
\* C9: the players of the aggregators' output are exactly the distinct
\* player names of the input, each once: a player none of whose events
\* matches a classification has a row with the eight counters 0 and RS the
\* sum of its runs, no other name has a row, and an empty input gives an
\* empty output.
C9_PlayersAreInputNames ==
    /\ pc = "counted" =>
          /\ DOMAIN counts.rows = Players(df)
          /\ Range(counts.index) = Players(df)
          /\ Len(counts.index) = Cardinality(Players(df))
          /\ \A p \in Players(df) \cap DOMAIN counts.rows :
                LET expected == MatchingEvents(df, p)
                IN  (\A f \in Counters : expected[f] = 0) =>
                        /\ \A f \in Counters : counts.rows[p][f] = 0
                        /\ counts.rows[p].RS = RunsTotal(df, p)
          /\ df = <<>> => counts.index = <<>>
    /\ pc = "matrix" =>
          /\ {matrix[n].PlayerName : n \in DOMAIN matrix} = Players(df)
          /\ Len(matrix) = Cardinality(Players(df))
          /\ \A n \in DOMAIN matrix :
                LET expected == MatchingEvents(df, matrix[n].PlayerName)
                IN  (\A f \in Counters : expected[f] = 0) =>
                        /\ \A f \in Counters : matrix[n][f] = 0
                        /\ matrix[n].RS = RunsTotal(df, matrix[n].PlayerName)
          /\ df = <<>> => matrix = <<>>

\* Next to a player with a catch, a player whose only event has a blank pick,
\* an unrecognized throw and no runs has a row of zeros.
C9_Witness ==
    /\ pc = "counted"
    /\ Len(counts.index) = 2
    /\ \E p, q \in DOMAIN counts.rows :
          /\ \A f \in Counters : counts.rows[p][f] = 0
          /\ counts.rows[p].RS = 0
          /\ counts.rows[q].C = 1

-----------------------------------------------------------------------------
\* C10: compute_ps returns a table with the players of its input, in the
\* same order, and with every CP, GT, C, DC, ST, RO, MRO, DH and RS value
\* unchanged; the only difference is the added PS column, and the input
\* table itself is not modified.
C10_ScorerAddsOnlyPS ==
    [][ (pc = "counted" /\ pc' = "scored") =>
           /\ counts' = counts
           /\ summary'.index = counts.index
           /\ DOMAIN summary'.rows = DOMAIN counts.rows
           /\ \A p \in DOMAIN counts.rows :
                 /\ "PS" \notin DOMAIN counts.rows[p]
                 /\ DOMAIN summary'.rows[p] = DOMAIN counts.rows[p] \cup {"PS"}
                 /\ \A f \in DOMAIN counts.rows[p] :
                       summary'.rows[p][f] = counts.rows[p][f]
      ]_vars

\* Two players have been scored: the summary has a PS for each, the table of
\* counts still has none.
C10_Witness ==
    /\ pc = "scored"
    /\ Len(summary.index) = 2
    /\ \A p \in DOMAIN summary.rows :
          /\ summary.rows[p].PS # 0
          /\ DOMAIN counts.rows[p] = Counters \cup {"RS"}

-----------------------------------------------------------------------------
\* C11: an event whose Runs cell is missing counts as an event with 0 runs:
\* the aggregation returns (it does not raise), the event still adds one to
\* every counter whose classification it matches, and the player's RS is the
\* sum of the runs of the player's other events.
C11_MissingRunsAreZero ==
    /\ pc = "raised" => \A i \in DOMAIN df : df[i].Runs # <<>>
    /\ pc = "counted" =>
          \A i \in DOMAIN df : df[i].Runs = <<>> =>
              LET p == df[i].PlayerName
                  others == Without(df, i)
                  before == MatchingEvents(others, p)
                  own == MatchingEvents(<<df[i]>>, p)
              IN  /\ p \in DOMAIN counts.rows
                  /\ counts.rows[p].RS = RunsTotal(others, p)
                  /\ \A f \in Counters :
                        counts.rows[p][f] = before[f] + own[f]
    /\ pc = "matrix" =>
          \A i \in DOMAIN df : df[i].Runs = <<>> =>
              LET p == df[i].PlayerName
                  others == Without(df, i)
                  before == MatchingEvents(others, p)
                  own == MatchingEvents(<<df[i]>>, p)
              IN  /\ MatrixRowsOf(p) # {}
                  /\ \A n \in MatrixRowsOf(p) :
                        /\ matrix[n].RS = RunsTotal(others, p)
                        /\ \A f \in Counters :
                              matrix[n][f] = before[f] + own[f]

\* A player with a catch whose runs are missing and another event that
\* conceded runs has been counted: C = 1 and RS < 0.
C11_Witness ==
    /\ pc = "counted"
    /\ \E i \in DOMAIN df :
          /\ df[i].Runs = <<>>
          /\ counts.rows[df[i].PlayerName].C = 1
          /\ counts.rows[df[i].PlayerName].RS < 0

-----------------------------------------------------------------------------
\* The characters of Python's number literals: digits, sign, point,
\* exponent, underscore, blanks and the letters of "inf", "infinity", "nan".
NumberChars ==
    Digits \cup Whitespace \cup
    {"+", "-", ".", "_", "e", "E", "i", "I", "n", "N", "f", "F", "a", "A",
     "t", "T", "y", "Y"}

\* The Runs cell is text with a character that no number literal has.
NotANumber(r) == Len(r) = 2 /\ \E i \in DOMAIN r[2] : r[2][i] \notin NumberChars

\* An aggregator has been called on a dataset one of whose Runs cells is no
\* number.
AggregatedNotANumber ==
    /\ pc # "input"
    /\ \E i \in DOMAIN df : NotANumber(df[i].Runs)

-----------------------------------------------------------------------------
\* The table of counts lacks one of the columns CP, GT, C, DC, ST, RO, MRO,
\* DH, RS.
Lacking(table) ==
    \E n \in DOMAIN CountColumns :
        \A m \in DOMAIN table.columns : table.columns[m] # CountColumns[n]

\* C13 as stated: scoring a table of counts that lacks a required column
\* fails with a MalformedAggregateError and returns no result, and the
\* scorer fails in no other case.
C13_FailsWithMalformedAggregateError ==
    /\ (pc = "raised" /\ raised[1] = "compute_ps") =>
          /\ Lacking(counts)
          /\ raised[2] = "MalformedAggregateError"
          /\ summary = None
    /\ pc = "scored" => ~Lacking(counts) /\ summary # None

\* C13, amended: scoring a table of counts that lacks one of CP, GT, C, DC,
\* ST, RO, MRO, DH, RS fails with the KeyError that pandas raises and returns
\* no result; on the tables compute_action_counts returns, with or without a
\* column dropped, the scorer fails in no other case.
C13_FailsWithKeyError ==
    /\ (pc = "raised" /\ raised[1] = "compute_ps") =>
          /\ Lacking(counts)
          /\ raised[2] = "KeyError"
          /\ summary = None
    /\ pc = "scored" => ~Lacking(counts) /\ summary # None

\* compute_ps has raised on a table of two players without its RS column.
C13_Witness ==
    /\ pc = "raised"
    /\ raised[1] = "compute_ps"
    /\ Len(counts.index) = 2
    /\ counts.columns = <<"CP", "GT", "C", "DC", "ST", "RO", "MRO", "DH">>

-----------------------------------------------------------------------------
\* The rows of the dataset at the positions in S, in dataset order.
RECURSIVE Shard(_, _)
Shard(frame, S) ==
    IF frame = <<>> THEN <<>>
    ELSE Shard(SubSeq(frame, 1, Len(frame) - 1), S)
         \o (IF Len(frame) \in S THEN <<frame[Len(frame)]>> ELSE <<>>)

\* The field-wise sum of two aggregates, player by player; a player that
\* one of them lacks adds nothing.
Merge(a, b) ==
    [p \in DOMAIN a \cup DOMAIN b |->
        [f \in Counters \cup {"RS"} |->
              (IF p \in DOMAIN a THEN a[p][f] ELSE 0)
            + (IF p \in DOMAIN b THEN b[p][f] ELSE 0)]]

ShardNames == {"s1", "s2", "s3"}

\* C14: for every permutation of the events compute_action_counts returns
\* the same table, and for every split of the events into three shards
\* (empty ones included) the field-wise sum of the shards' tables, in either
\* grouping and (the split being any) in any order, has for every player the
\* CP, GT, C, DC, ST, RO, MRO, DH and RS of the table of the whole dataset.
C14_OrderAndShardInsensitive ==
    pc = "counted" =>
        LET n == DOMAIN df
            agg == [S \in SUBSET n |->
                       compute_action_counts(Shard(df, S)).result.rows]
        IN  /\ \A f \in Permutations(n) :
                  compute_action_counts([i \in n |-> df[f[i]]]).result = counts
            /\ \A split \in [n -> ShardNames] :
                  LET part(s) == agg[{i \in n : split[i] = s}]
                  IN  /\ Merge(Merge(part("s1"), part("s2")), part("s3"))
                            = counts.rows
                      /\ Merge(part("s1"), Merge(part("s2"), part("s3")))
                            = counts.rows

\* A dataset of three events of two players has been counted; one player
\* has a clean pick and a good throw, so that a split puts each event in a
\* shard of its own.
C14_Witness ==
    /\ pc = "counted"
    /\ Len(df) = 3
    /\ Len(counts.index) = 2
    /\ \E p \in DOMAIN counts.rows :
          counts.rows[p].CP = 1 /\ counts.rows[p].GT = 1

-----------------------------------------------------------------------------
\* compute_matrix has been called on the dataset, and has returned or raised.
MatrixCalled ==
    \/ pc = "matrix"
    \/ pc = "raised" /\ raised[1] = "compute_matrix"

\* The matrix has the players of the summary in the same order, and for
\* each of them the same value in every column of cols.
SameRows(m, table, cols) ==
    /\ Len(m) = Len(table.index)
    /\ \A n \in DOMAIN m :
          /\ m[n].PlayerName = table.index[n]
          /\ \A f \in cols : m[n][f] = table.rows[table.index[n]][f]

\* The players come in ascending order of name.
Ascending(m) ==
    \A n1, n2 \in DOMAIN m :
        n1 < n2 => str_lt(m[n1].PlayerName, m[n2].PlayerName)

\* What compute_matrix returned is what summarize_players returns for the
\* same dataset and weights; with the defaults of fielding_analysis.py it is,
\* up to PS, what summarize_players returns with the defaults of analysis.py.
MatrixIsSummary ==
    /\ pc = "matrix"
    /\ LET same == summarize_players(df, weights)
           own == summarize_players(df, AnalysisWeights)
       IN  /\ same.raised = ""
           /\ SameRows(matrix, same.result, Counters \cup {"RS", "PS"})
           /\ Ascending(matrix)
           /\ weights = FieldingWeights =>
                  /\ own.raised = ""
                  /\ SameRows(matrix, own.result, Counters \cup {"RS"})

\* C9 on every dataset, the one without rows included: the aggregators
\* return (an empty input gives an empty output, not an exception), and what
\* they return has exactly the players of the input, each once.
C9_EveryInputHasOutput ==
    /\ ~(pc = "raised" /\ raised[1] \in {"compute_action_counts", "compute_matrix"})
    /\ C9_PlayersAreInputNames

\* C15: for every dataset and every weight configuration, compute_matrix
\* and summarize_players yield the same players in the same ascending order
\* of name, with equal CP, GT, C, DC, ST, RO, MRO, DH, RS and PS; each with
\* its own default weights, they differ in PS only.
C15_ImplementationsAgree == MatrixCalled => MatrixIsSummary

\* The same on the datasets that have at least one event.
C15_AgreeOnEvents == (MatrixCalled /\ df # <<>>) => MatrixIsSummary

\* compute_matrix has returned two players with the defaults of
\* fielding_analysis.py; one has a drop catch, which the two defaults weigh
\* differently.
C15_Witness ==
    /\ pc = "matrix"
    /\ weights = FieldingWeights
    /\ Len(matrix) = 2
    /\ \E n \in DOMAIN matrix :
          /\ matrix[n].DC = 1
          /\ matrix[n].PS #
                summarize_players(df, AnalysisWeights).result.rows[matrix[n].PlayerName].PS

-----------------------------------------------------------------------------
\* The line is one letter, in either case.
SingleLetter(line) ==
    /\ Len(line) = 1
    /\ \E n \in DOMAIN LowerCase : line[1] \in {LowerCase[n], UpperCase[n]}

\* The line is rejected: it is not the hint and is either no single letter
\* or a letter that was already guessed or revealed.
Rejected(line) ==
    /\ line # <<"*">>
    /\ \/ ~SingleLetter(line)
       \/ str_lower(line) \in guessed_letters \cup wrong_guesses

\* Attempts left plus distinct letters still hidden.
Measure == attempts + Cardinality(word_letters)

\* The distinct letters of the word.
Distinct == Cardinality({word[i] : i \in DOMAIN word})

RoundInvariant ==
    /\ attempts \in 0..6
    /\ hpc = "loop" => attempts > 0 /\ word_letters # {}
    /\ hpc \in {"loop", "won", "lost"} => accepted <= 6 + Distinct - 1
    /\ hpc \in {"won", "lost"} =>
          /\ attempts = 0 \/ word_letters = {}
          /\ hpc = "won" <=> word_letters = {}

RoundStep ==
    \A line \in Typed :
        Guess(line) =>
            IF Rejected(line)
            THEN UNCHANGED <<word, word_letters, guessed_letters,
                             wrong_guesses, attempts, accepted, hpc>>
            ELSE /\ Measure' < Measure
                 /\ accepted' = accepted + 1

\* C16: in a round of Hangman attempts stays within 0..6; an input that is
\* no single letter, or a letter already guessed or revealed, changes
\* nothing; every other input (a new correct letter, a new wrong letter,
\* the hint "*") lowers attempts plus the number of distinct letters still
\* hidden; so the loop takes at most 6 + k - 1 such inputs for a word of k
\* distinct letters, and the round is reported won exactly when no letter is
\* hidden at its end.
C16_HangmanRound == []RoundInvariant /\ [][RoundStep]_vars

\* A round of the longest possible length has been won with no attempt
\* left: the last attempt went into the hint that revealed the last letter.
C16_Witness ==
    /\ hpc = "won"
    /\ attempts = 0
    /\ accepted = 6 + Distinct - 1
    /\ Cardinality(wrong_guesses) < 6

====
